---- MODULE Spec2Model ----
(***************************************************************************)
(* Model of jfr/recorder/checkpoint/types/jfrType.cpp: the constant-type   *)
(* serializers that write count-prefixed pools into a JfrCheckpointWriter. *)
(*                                                                         *)
(* The writer's buffer is a sequence of cells.  A u4 count occupies four   *)
(* "byte" cells (big-endian); every other value written (a key, a traceid, *)
(* a string, the null string) occupies one cell, since only the width of   *)
(* the count field is fixed by the writer's contract.  Offsets (cursor,    *)
(* context, reserved position) are 0-based cell offsets.                   *)
(*                                                                         *)
(* Spec is the thread serializers (JfrThreadConstantSet, JfrThreadConstant)*)
(* and one static table writing into the same writer while other threads   *)
(* change the thread registry under Threads_lock.  SpecTables is the       *)
(* static table serializers under every combination of the build-time      *)
(* capability switches.                                                    *)
(***************************************************************************)
EXTENDS Integers, Sequences, FiniteSets, TLC

\* ------------------------------------------------------------------ bounds
\* serializer calls made on the one writer of a checkpoint
MaxCalls == 2
\* largest cardinality tried for an enumeration declared outside this file
MaxCard == 2

\* ------------------------------------------------------- threads (external)
\* Threads that may be registered: Java threads and non-Java threads.
JavaThreads == {10, 11}
NonJavaThreads == {5}
\* Threads that may run a serializer: 1 is a Java thread, 2 is not.
Callers == {1, 2}
\* Threads for which JfrThreadName::name yields NULL.
NullNamed == {11, 2}
\* Threads_lock is free
NoThread == [held |-> FALSE, by |-> 0]
HeldBy(t) == [held |-> TRUE, by |-> t]

VARIABLES
  writer,      \* JfrCheckpointWriter: [buf |-> cells, pos |-> cursor]
  cur,         \* Thread::current() of the thread that runs the serializers
  build,       \* build-time switches: [ASSERT, INCLUDE_ALL_GCS, COMPILER2]
  javaReg,     \* the registered Java threads, in iteration order
  nonJavaReg,  \* the registered non-Java threads, in iteration order
  lockOwner,   \* owner of Threads_lock
  skip,        \* cur's skip_rank_order_check flag
  pc,          \* position of cur inside JfrThreadConstantSet::serialize
  tc,          \* the JfrCheckpointThreadClosure of the running call
  jidx,        \* position of the JfrJavaThreadIterator
  nidx,        \* position of the JfrNonJavaThreadIterator
  seen,        \* registry content when Threads_lock was acquired
  start,       \* the writer's cursor when the running call was entered
  skip0,       \* cur's skip_rank_order_check flag when that call was entered
  calls        \* one record per serializer call that has returned

vars == <<writer, cur, build, javaReg, nonJavaReg, lockOwner, skip, pc, tc,
          jidx, nidx, seen, start, skip0, calls>>
conf == <<cur, build>>
registry == <<javaReg, nonJavaReg>>
iters == <<jidx, nidx>>

\* -------------------------------------------------------------------- cells
Cell(k, n, s) == [k |-> k, n |-> n, s |-> s]
Byte(b) == Cell("byte", b, "")
Key(n) == Cell("key", n, "")
Id(n) == Cell("id", n, "")
\* a string: s is its text; for a name obtained from a lookup declared
\* outside this file, s names the lookup and n is the argument
Str(s, n) == Cell("str", n, s)
\* write((const char*)NULL): the null string, distinct from ""
NullStr == Cell("null", 0, "")
\* a reserved cell whose content was never defined
Uninit == Cell("uninit", 0, "")

\* a u4 as the four bytes of the count field, and back
EncodeU4(n) ==
  << Byte((n \div 16777216) % 256), Byte((n \div 65536) % 256),
     Byte((n \div 256) % 256), Byte(n % 256) >>
DecodeU4(cs) ==
  cs[1].n * 16777216 + cs[2].n * 65536 + cs[3].n * 256 + cs[4].n

\* ------------------------------------------------------ JfrCheckpointWriter
\* the cells of buffer b at offsets lo .. hi-1 that the buffer holds
Cells(b, lo, hi) ==
  LET top == IF hi < Len(b) THEN hi ELSE Len(b)
      n == IF top > lo THEN top - lo ELSE 0
  IN  [i \in 1..n |-> b[lo + i]]

\* cells `cs` stored at offset p of buffer b, which grows when needed
StoreAt(b, p, cs) ==
  Cells(b, 0, p) \o cs \o Cells(b, p + Len(cs), Len(b))

\* write(value), write_key(key): append at the cursor and advance it
Put(w, cs) == [buf |-> StoreAt(w.buf, w.pos, cs), pos |-> w.pos + Len(cs)]

\* context(): the cursor
context(w) == w.pos

\* set_context(ctx): rewind the cursor; the buffer is not truncated
set_context(w, ctx) == [w EXCEPT !.pos = ctx]

\* reserve(size): size cells at the cursor, content left as it is
reserve(w, size) ==
  LET old == Cells(w.buf, w.pos, w.pos + size)
      pad == [i \in 1..(size - Len(old)) |-> Uninit]
  IN  Put(w, old \o pad)

\* write_count(n): the count field at the cursor
write_count(w, n) == Put(w, EncodeU4(n))

\* write_count(n, position): patch in place, the cursor stays
write_count_at(w, n, position) ==
  [w EXCEPT !.buf = StoreAt(w.buf, position, EncodeU4(n))]

\* ------------------------------------------- thread attributes (external)
is_Java_thread(t) == t \in JavaThreads \/ t = 1
jfr_id(t) == 300 + t
os_id(t) == 100 + t
java_id(t) == 200 + t
JfrThreadName_name(t) == IF t \in NullNamed THEN NullStr ELSE Str("thread", t)
thread_group_id(t, resolver) == 1000 + 16 * t + resolver

\* what JfrJavaThreadIterator and JfrNonJavaThreadIterator enumerate
javathreads == javaReg
nonjavathreads == nonJavaReg

\* ------------------------------------------------ JfrCheckpointThreadClosure
\* ClosureNew with _count_position left at the start of the buffer
ClosureNew_zero_position(w, thread) ==
  [ctx |-> context(w), count_position |-> 0, curthread |-> thread, count |-> 0]

\* the constructor: capture the context, reserve the count slot
ClosureNew(w, thread) ==
  [ctx |-> context(w), count_position |-> w.pos, curthread |-> thread, count |-> 0]

\* do_thread with ++_count moved into the Java branch
do_thread_count_java_only(w, c, t) ==
  LET c1 == IF is_Java_thread(t) THEN [c EXCEPT !.count = c.count + 1] ELSE c
      w1 == Put(w, <<Key(jfr_id(t))>>)
      name == JfrThreadName_name(t)
      w2 == Put(w1, <<name, Id(os_id(t))>>)
      w3 == IF is_Java_thread(t)
            THEN Put(w2, <<name, Id(java_id(t)),
                           Id(thread_group_id(t, c.curthread))>>)
            ELSE Put(w2, <<NullStr, Id(0), Id(0)>>)
  IN  IF build.ASSERT /\ name = NullStr
      THEN [w |-> w1, c |-> c1, fatal |-> TRUE]
      ELSE [w |-> w3, c |-> c1, fatal |-> FALSE]

\* do_thread that repeats the display name as the Java name of every thread
do_thread_name_always(w, c, t) ==
  LET c1 == [c EXCEPT !.count = c.count + 1]
      w1 == Put(w, <<Key(jfr_id(t))>>)
      name == JfrThreadName_name(t)
      w2 == Put(w1, <<name, Id(os_id(t)), name>>)
      w3 == IF is_Java_thread(t)
            THEN Put(w2, <<Id(java_id(t)), Id(thread_group_id(t, c.curthread))>>)
            ELSE Put(w2, <<Id(0), Id(0)>>)
  IN  IF build.ASSERT /\ name = NullStr
      THEN [w |-> w1, c |-> c1, fatal |-> TRUE]
      ELSE [w |-> w3, c |-> c1, fatal |-> FALSE]

\* do_thread that resolves the group id in the enumerated thread's own context
do_thread_group_in_own_context(w, c, t) ==
  LET c1 == [c EXCEPT !.count = c.count + 1]
      w1 == Put(w, <<Key(jfr_id(t))>>)
      name == JfrThreadName_name(t)
      w2 == Put(w1, <<name, Id(os_id(t))>>)
      w3 == IF is_Java_thread(t)
            THEN Put(w2, <<name, Id(java_id(t)), Id(thread_group_id(t, t))>>)
            ELSE Put(w2, <<NullStr, Id(0), Id(0)>>)
  IN  IF build.ASSERT /\ name = NullStr
      THEN [w |-> w1, c |-> c1, fatal |-> TRUE]
      ELSE [w |-> w3, c |-> c1, fatal |-> FALSE]

\* do_thread that writes nothing after the OS thread id of a non-Java thread
do_thread_native_fields_omitted(w, c, t) ==
  LET c1 == [c EXCEPT !.count = c.count + 1]
      w1 == Put(w, <<Key(jfr_id(t))>>)
      name == JfrThreadName_name(t)
      w2 == Put(w1, <<name, Id(os_id(t))>>)
      w3 == IF is_Java_thread(t)
            THEN Put(w2, <<name, Id(java_id(t)),
                           Id(thread_group_id(t, c.curthread))>>)
            ELSE w2
  IN  IF build.ASSERT /\ name = NullStr
      THEN [w |-> w1, c |-> c1, fatal |-> TRUE]
      ELSE [w |-> w3, c |-> c1, fatal |-> FALSE]

\* do_thread(t) on closure c and writer w: the closure, the writer, and
\* whether assert(name != NULL) stopped the VM.  _count is a u4; the
\* registries hold far fewer than 2^32 threads, so ++_count never wraps.
do_thread(w, c, t) ==
  LET c1 == [c EXCEPT !.count = c.count + 1]
      w1 == Put(w, <<Key(jfr_id(t))>>)
      name == JfrThreadName_name(t)
      w2 == Put(w1, <<name, Id(os_id(t))>>)
      w3 == IF is_Java_thread(t)
            THEN Put(w2, <<name, Id(java_id(t)),
                           Id(thread_group_id(t, c.curthread))>>)
            ELSE Put(w2, <<NullStr, Id(0), Id(0)>>)
  IN  IF build.ASSERT /\ name = NullStr
      THEN [w |-> w1, c |-> c1, fatal |-> TRUE]
      ELSE [w |-> w3, c |-> c1, fatal |-> FALSE]

\* the destructor without the rollback of an empty pool
ClosureDelete_no_rollback(w, c) == write_count_at(w, c.count, c.count_position)

\* the destructor: roll back an empty pool, else patch the count
ClosureDelete(w, c) ==
  IF c.count = 0
  THEN set_context(w, c.ctx)
  ELSE write_count_at(w, c.count, c.count_position)

\* ------------------------------------------------------------ call records
NoClosure == [ctx |-> 0, count_position |-> 0, curthread |-> 0, count |-> 0]
NoSeen == [java |-> <<>>, nonjava |-> <<>>]
\* a call of serializer `ser` that returned: the cursor before and after, the
\* count it computed, and the registry it enumerated
Returned(ser, before, after, nof, reg) ==
  [ser |-> ser, before |-> before, after |-> after, nof |-> nof, reg |-> reg]
CanCall == pc = "idle" /\ Len(calls) < MaxCalls

\* ------------------------------------------- JfrThreadConstantSet::serialize
\* NextPhase with the two loops in the other order
NextPhase_nonjava_first(p) ==
  CASE p = "skip_on" -> "nonjava"
    [] p = "nonjava" -> "java"
    [] p = "java" -> "skip_off"

\* the statement that follows the one at position p: the Java loop, then the
\* non-Java loop, then the end of the function
NextPhase(p) ==
  CASE p = "skip_on" -> "java"
    [] p = "java" -> "nonjava"
    [] p = "nonjava" -> "skip_off"

\* reaching a loop declares its iterator, which starts at the first thread
Enter(p) ==
  /\ pc' = p
  /\ jidx' = IF p = "java" THEN 1 ELSE jidx
  /\ nidx' = IF p = "nonjava" THEN 1 ELSE nidx

\* JfrCheckpointThreadClosure tc(writer);
ThreadSet_Closure ==
  /\ CanCall
  /\ tc' = ClosureNew(writer, cur)
  /\ writer' = reserve(writer, 4)
  /\ start' = writer.pos
  /\ skip0' = skip
  /\ pc' = "lock"
  /\ UNCHANGED <<conf, registry, lockOwner, skip, iters, seen, calls>>

\* ThreadSet_Lock without the MutexLockerEx
ThreadSet_Lock_not_taken ==
  /\ pc = "lock"
  /\ seen' = [java |-> javaReg, nonjava |-> nonJavaReg]
  /\ pc' = "skip_on"
  /\ UNCHANGED <<writer, conf, registry, lockOwner, skip, tc, iters, start, skip0, calls>>

\* MutexLockerEx ml(Threads_lock);
ThreadSet_Lock ==
  /\ pc = "lock"
  /\ lockOwner = NoThread
  /\ lockOwner' = HeldBy(cur)
  /\ seen' = [java |-> javaReg, nonjava |-> nonJavaReg]
  /\ pc' = "skip_on"
  /\ UNCHANGED <<writer, conf, registry, skip, tc, iters, start, skip0, calls>>

\* ThreadSet_SkipOn without the set_skip_rank_order_check(true)
ThreadSet_SkipOn_flag_not_set ==
  /\ pc = "skip_on"
  /\ Enter(NextPhase(pc))
  /\ UNCHANGED <<writer, conf, registry, lockOwner, skip, tc, seen, start, skip0, calls>>

\* #ifdef ASSERT set_skip_rank_order_check(true);
\* JfrJavaThreadIterator javathreads;
ThreadSet_SkipOn ==
  /\ pc = "skip_on"
  /\ skip' = IF build.ASSERT THEN TRUE ELSE skip
  /\ Enter(NextPhase(pc))
  /\ UNCHANGED <<writer, conf, registry, lockOwner, tc, seen, start, skip0, calls>>

\* while (javathreads.has_next()) tc.do_thread(javathreads.next());
\* then JfrNonJavaThreadIterator nonjavathreads;
ThreadSet_JavaLoop ==
  /\ pc = "java"
  /\ IF jidx <= Len(javathreads)
     THEN LET r == do_thread(writer, tc, javathreads[jidx])
          IN  /\ writer' = r.w
              /\ tc' = r.c
              /\ jidx' = jidx + 1
              /\ pc' = IF r.fatal THEN "fatal" ELSE "java"
              /\ nidx' = nidx
     ELSE /\ Enter(NextPhase(pc))
          /\ UNCHANGED <<writer, tc>>
  /\ UNCHANGED <<conf, registry, lockOwner, skip, seen, start, skip0, calls>>

\* ThreadSet_NonJavaLoop that leaves the loop one thread early
ThreadSet_NonJavaLoop_stops_early ==
  /\ pc = "nonjava"
  /\ IF nidx < Len(nonjavathreads)
     THEN LET r == do_thread(writer, tc, nonjavathreads[nidx])
          IN  /\ writer' = r.w
              /\ tc' = r.c
              /\ nidx' = nidx + 1
              /\ pc' = IF r.fatal THEN "fatal" ELSE "nonjava"
              /\ jidx' = jidx
     ELSE /\ Enter(NextPhase(pc))
          /\ UNCHANGED <<writer, tc>>
  /\ UNCHANGED <<conf, registry, lockOwner, skip, seen, start, skip0, calls>>

\* while (nonjavathreads.has_next()) tc.do_thread(nonjavathreads.next());
ThreadSet_NonJavaLoop ==
  /\ pc = "nonjava"
  /\ IF nidx <= Len(nonjavathreads)
     THEN LET r == do_thread(writer, tc, nonjavathreads[nidx])
          IN  /\ writer' = r.w
              /\ tc' = r.c
              /\ nidx' = nidx + 1
              /\ pc' = IF r.fatal THEN "fatal" ELSE "nonjava"
              /\ jidx' = jidx
     ELSE /\ Enter(NextPhase(pc))
          /\ UNCHANGED <<writer, tc>>
  /\ UNCHANGED <<conf, registry, lockOwner, skip, seen, start, skip0, calls>>

\* #ifdef ASSERT set_skip_rank_order_check(false);
ThreadSet_SkipOff ==
  /\ pc = "skip_off"
  /\ skip' = IF build.ASSERT THEN FALSE ELSE skip
  /\ pc' = "unlock"
  /\ UNCHANGED <<writer, conf, registry, lockOwner, tc, iters, seen, start, skip0, calls>>

\* ThreadSet_Unlock with the closure declared after the locker, so that the
\* closure is destroyed while Threads_lock is still held
ThreadSet_Unlock_lock_kept ==
  /\ pc = "unlock"
  /\ pc' = "dtor"
  /\ UNCHANGED <<writer, conf, registry, lockOwner, skip, tc, iters, seen, start, skip0, calls>>

\* end of scope: ~MutexLockerEx releases Threads_lock first
ThreadSet_Unlock ==
  /\ pc = "unlock"
  /\ lockOwner' = NoThread
  /\ pc' = "dtor"
  /\ UNCHANGED <<writer, conf, registry, skip, tc, iters, seen, start, skip0, calls>>

\* end of scope: ~JfrCheckpointThreadClosure runs last, and serialize returns
ThreadSet_Return ==
  /\ pc = "dtor"
  /\ writer' = ClosureDelete(writer, tc)
  /\ calls' = Append(calls, Returned("JfrThreadConstantSet", start,
                                     writer'.pos, tc.count, seen))
  /\ pc' = "idle"
  /\ tc' = NoClosure
  /\ seen' = NoSeen
  /\ UNCHANGED <<conf, registry, lockOwner, skip, iters, start, skip0>>

\* ------------------------------------- the thread registry (other threads)
\* A thread is added to or removed from its list by another thread, which
\* takes Threads_lock for the change.
Without(s, t) == SelectSeq(s, LAMBDA x : x # t)
InSeq(s, t) == \E i \in 1..Len(s) : s[i] = t

Threads_add(t) ==
  /\ pc # "fatal"
  /\ lockOwner = NoThread
  /\ IF t \in JavaThreads
     THEN /\ ~InSeq(javaReg, t)
          /\ javaReg' = Append(javaReg, t)
          /\ UNCHANGED nonJavaReg
     ELSE /\ ~InSeq(nonJavaReg, t)
          /\ nonJavaReg' = Append(nonJavaReg, t)
          /\ UNCHANGED javaReg
  /\ UNCHANGED <<writer, conf, lockOwner, skip, pc, tc, iters, seen, start, skip0, calls>>

Threads_remove(t) ==
  /\ pc # "fatal"
  /\ lockOwner = NoThread
  /\ IF t \in JavaThreads
     THEN /\ InSeq(javaReg, t)
          /\ javaReg' = Without(javaReg, t)
          /\ UNCHANGED nonJavaReg
     ELSE /\ InSeq(nonJavaReg, t)
          /\ nonJavaReg' = Without(nonJavaReg, t)
          /\ UNCHANGED javaReg
  /\ UNCHANGED <<writer, conf, lockOwner, skip, pc, tc, iters, seen, start, skip0, calls>>

\* ------------------------------------------------ JfrThreadConstant::serialize
\* JfrThreadGroup::serialize(&writer, thread_group_id): the group chain,
\* written inline by code outside this file
JfrThreadGroup_serialize(w, gid) == Put(w, <<Cell("group", gid, "")>>)

\* self_serialize with write_count(1) moved into the Java branch
self_serialize_count_java_only(w, thread) ==
  LET w0 == IF is_Java_thread(thread) THEN write_count(w, 1) ELSE w
      w1 == Put(w0, <<Key(jfr_id(thread))>>)
      name == JfrThreadName_name(thread)
      w2 == Put(w1, <<name, Id(os_id(thread))>>)
      gid == thread_group_id(thread, thread)
  IN  IF is_Java_thread(thread)
      THEN JfrThreadGroup_serialize(
             Put(w2, <<name, Id(java_id(thread)), Id(gid)>>), gid)
      ELSE Put(w2, <<NullStr, Id(0), Id(0)>>)

\* the serializer of the calling thread itself (_thread == Thread::current())
self_serialize(w, thread) ==
  LET w0 == write_count(w, 1)
      w1 == Put(w0, <<Key(jfr_id(thread))>>)
      name == JfrThreadName_name(thread)
      w2 == Put(w1, <<name, Id(os_id(thread))>>)
      gid == thread_group_id(thread, thread)
  IN  IF is_Java_thread(thread)
      THEN JfrThreadGroup_serialize(
             Put(w2, <<name, Id(java_id(thread)), Id(gid)>>), gid)
      ELSE Put(w2, <<NullStr, Id(0), Id(0)>>)

JfrThreadConstant_serialize ==
  /\ CanCall
  /\ writer' = self_serialize(writer, cur)
  /\ calls' = Append(calls, Returned("JfrThreadConstant", writer.pos,
                                     writer'.pos, 1, NoSeen))
  /\ UNCHANGED <<conf, registry, lockOwner, skip, pc, tc, iters, seen, start, skip0>>

\* ------------------------------------------------------- static name tables
\* Flag::Flags value origins and ReferenceType, declared outside this file:
\* the enumerators in declaration order, the first having ordinal 0.
Flag_Flags ==
  <<"DEFAULT", "COMMAND_LINE", "ENVIRON_VAR", "CONFIG_FILE", "MANAGEMENT",
    "ERGONOMIC", "ATTACH_ON_DEMAND", "INTERNAL">>
LAST_VALUE_ORIGIN == "INTERNAL"
ReferenceType ==
  <<"REF_NONE", "REF_OTHER", "REF_SOFT", "REF_WEAK", "REF_FINAL",
    "REF_PHANTOM">>

\* the ordinal of enumerator e, and the cast (Enum)i of an ordinal
Ordinal(enum, e) == CHOOSE i \in 0..(Len(enum) - 1) : enum[i + 1] = e
Cast(enum, i) == IF i < Len(enum) THEN enum[i + 1] ELSE "(no enumerator)"

\* ShouldNotReachHere(): the VM stops
ShouldNotReachHere == Cell("fatal", 0, "")

flag_value_origin_to_string(origin) ==
  CASE origin = "DEFAULT" -> Str("Default", 0)
    [] origin = "COMMAND_LINE" -> Str("Command line", 0)
    [] origin = "ENVIRON_VAR" -> Str("Environment variable", 0)
    [] origin = "CONFIG_FILE" -> Str("Config file", 0)
    [] origin = "MANAGEMENT" -> Str("Management", 0)
    [] origin = "ERGONOMIC" -> Str("Ergonomic", 0)
    [] origin = "ATTACH_ON_DEMAND" -> Str("Attach on demand", 0)
    [] origin = "INTERNAL" -> Str("Internal", 0)
    [] OTHER -> ShouldNotReachHere

reference_type_to_string(rt) ==
  CASE rt = "REF_NONE" -> Str("None reference", 0)
    [] rt = "REF_OTHER" -> Str("Other reference", 0)
    [] rt = "REF_SOFT" -> Str("Soft reference", 0)
    [] rt = "REF_WEAK" -> Str("Weak reference", 0)
    [] rt = "REF_FINAL" -> Str("Final reference", 0)
    [] rt = "REF_PHANTOM" -> Str("Phantom reference", 0)
    [] OTHER -> ShouldNotReachHere

\* the name a table's serializer looks up for ordinal i; the lookups of the
\* other tables are declared outside this file and stand for themselves
to_string(tbl, i) ==
  CASE tbl = "FlagValueOrigin" -> flag_value_origin_to_string(Cast(Flag_Flags, i))
    [] tbl = "ReferenceType" -> reference_type_to_string(Cast(ReferenceType, i))
    [] OTHER -> Str(tbl, i)

\* for (u4 i = 0; i < nof_entries; ++i) { write_key(i); write(to_string(i)); }
RECURSIVE table_loop(_, _, _, _)
table_loop(w, i, nof_entries, tbl) ==
  IF i < nof_entries
  THEN LET w1 == Put(w, <<Key(i)>>)
           name == to_string(tbl, i)
       IN  IF name = ShouldNotReachHere
           THEN [w |-> w1, fatal |-> TRUE]
           ELSE table_loop(Put(w1, <<name>>), i + 1, nof_entries, tbl)
  ELSE [w |-> w, fatal |-> FALSE]

\* table_serialize with the loop started at 1
table_serialize_from_one(w, nof_entries, tbl) ==
  table_loop(write_count(w, nof_entries), 1, nof_entries, tbl)

\* writer.write_count(nof_entries); then the loop
table_serialize(w, nof_entries, tbl) ==
  table_loop(write_count(w, nof_entries), 0, nof_entries, tbl)

\* a call of a serializer that leaves writer w behind
Call(ser, r, nof) ==
  /\ CanCall
  /\ writer' = r.w
  /\ IF r.fatal
     THEN pc' = "fatal" /\ calls' = calls
     ELSE /\ pc' = "idle"
          /\ calls' = Append(calls, Returned(ser, writer.pos, r.w.pos, nof, NoSeen))
  /\ UNCHANGED <<conf, registry, lockOwner, skip, tc, iters, seen, start, skip0>>

TableCall(tbl, nof_entries) ==
  Call(tbl, table_serialize(writer, nof_entries, tbl), nof_entries)

\* nof_entries of an enumeration declared outside this file
Cardinalities == 1..MaxCard

\* FlagValueOriginConstant_serialize with nof_entries one past the last origin
FlagValueOriginConstant_serialize_one_past ==
  TableCall("FlagValueOrigin", Ordinal(Flag_Flags, LAST_VALUE_ORIGIN) + 2)

FlagValueOriginConstant_serialize ==
  TableCall("FlagValueOrigin", Ordinal(Flag_Flags, LAST_VALUE_ORIGIN) + 1)
MonitorInflateCauseConstant_serialize ==
  \E n \in Cardinalities : TableCall("MonitorInflateCause", n)
GCCauseConstant_serialize ==
  \E n \in Cardinalities : TableCall("GCCause", n)
GCNameConstant_serialize ==
  \E n \in Cardinalities : TableCall("GCName", n)
GCWhenConstant_serialize ==
  \E n \in Cardinalities : TableCall("GCWhen", n)
G1HeapRegionTypeConstant_serialize ==
  \E n \in Cardinalities : TableCall("G1HeapRegionType", n)
GCThresholdUpdaterConstant_serialize ==
  \E n \in Cardinalities : TableCall("GCThresholdUpdater", n)
MetadataTypeConstant_serialize ==
  \E n \in Cardinalities : TableCall("MetadataType", n)
MetaspaceObjectTypeConstant_serialize ==
  \E n \in Cardinalities : TableCall("MetaspaceObjectType", n)
ReferenceTypeConstant_serialize ==
  TableCall("ReferenceType", Ordinal(ReferenceType, "REF_PHANTOM") + 1)
NarrowOopModeConstant_serialize ==
  \E n \in Cardinalities : TableCall("NarrowOopMode", n)
VMOperationTypeConstant_serialize ==
  \E n \in Cardinalities : TableCall("VMOperationType", n)

\* the body is compiled only #if INCLUDE_ALL_GCS
G1YCTypeConstant_serialize ==
  IF build.INCLUDE_ALL_GCS
  THEN \E n \in Cardinalities : TableCall("G1YCType", n)
  ELSE Call("G1YCType", [w |-> writer, fatal |-> FALSE], 0)

\* the body is compiled only #ifdef COMPILER2
CompilerPhaseTypeConstant_serialize ==
  IF build.COMPILER2
  THEN \E n \in Cardinalities : TableCall("CompilerPhaseType", n)
  ELSE Call("CompilerPhaseType", [w |-> writer, fatal |-> FALSE], 0)

\* the key (u4)CodeBlobType::All, an enumerator declared outside this file
CodeBlobType_All == Cell("key", 0, "CodeBlobType::All")

\* codeblob_serialize with one entry per code blob type
codeblob_serialize_per_type(w, NumTypes) ==
  table_loop(write_count(w, NumTypes), 0, NumTypes, "CodeBlobType")

\* write_count(CodeBlobType::NumTypes); write_key(All); write("CodeCache");
codeblob_serialize(w, NumTypes) ==
  [w |-> Put(Put(write_count(w, NumTypes), <<CodeBlobType_All>>),
             <<Str("CodeCache", 0)>>),
   fatal |-> FALSE]

\* All is an enumerator below NumTypes, so NumTypes is at least 1
CodeBlobTypeConstant_serialize ==
  \E NumTypes \in Cardinalities :
    Call("CodeBlobType", codeblob_serialize(writer, NumTypes), NumTypes)

\* ------------------------------------------------------------ specification
Quiet ==
  /\ writer = [buf |-> <<>>, pos |-> 0]
  /\ javaReg = <<>>
  /\ nonJavaReg = <<>>
  /\ lockOwner = NoThread
  /\ pc = "idle"
  /\ tc = NoClosure
  /\ jidx = 1
  /\ nidx = 1
  /\ seen = NoSeen
  /\ start = 0
  /\ calls = <<>>

\* skip_rank_order_check exists in ASSERT builds only, where the caller may
\* have set it before it calls a serializer
FlagValues == IF build.ASSERT THEN BOOLEAN ELSE {FALSE}

\* The thread serializers, with the registry changing under them.  They do
\* not read the capability switches.
Init ==
  /\ Quiet
  /\ cur \in Callers
  /\ build \in [ASSERT : BOOLEAN, INCLUDE_ALL_GCS : {TRUE}, COMPILER2 : {TRUE}]
  /\ skip \in FlagValues
  /\ skip0 = skip

Next ==
  \/ ThreadSet_Closure
  \/ ThreadSet_Lock
  \/ ThreadSet_SkipOn
  \/ ThreadSet_JavaLoop
  \/ ThreadSet_NonJavaLoop
  \/ ThreadSet_SkipOff
  \/ ThreadSet_Unlock
  \/ ThreadSet_Return
  \/ JfrThreadConstant_serialize
  \/ FlagValueOriginConstant_serialize
  \/ \E t \in JavaThreads \cup NonJavaThreads : Threads_add(t)
  \/ \E t \in JavaThreads \cup NonJavaThreads : Threads_remove(t)

Spec == Init /\ [][Next]_vars

\* Once it holds Threads_lock the calling thread keeps running: it waits for
\* nothing until serialize has returned.
ThreadSet_Run ==
  \/ ThreadSet_SkipOn
  \/ ThreadSet_JavaLoop
  \/ ThreadSet_NonJavaLoop
  \/ ThreadSet_SkipOff
  \/ ThreadSet_Unlock
  \/ ThreadSet_Return

SpecLive == Init /\ [][Next]_vars /\ WF_vars(ThreadSet_Run)

\* The static tables, under every combination of the capability switches.
InitTables ==
  /\ Quiet
  /\ cur = 1
  /\ build \in [ASSERT : {FALSE}, INCLUDE_ALL_GCS : BOOLEAN, COMPILER2 : BOOLEAN]
  /\ skip \in FlagValues
  /\ skip0 = skip

NextTables ==
  \/ FlagValueOriginConstant_serialize
  \/ MonitorInflateCauseConstant_serialize
  \/ GCCauseConstant_serialize
  \/ GCNameConstant_serialize
  \/ GCWhenConstant_serialize
  \/ G1HeapRegionTypeConstant_serialize
  \/ GCThresholdUpdaterConstant_serialize
  \/ MetadataTypeConstant_serialize
  \/ MetaspaceObjectTypeConstant_serialize
  \/ G1YCTypeConstant_serialize
  \/ ReferenceTypeConstant_serialize
  \/ NarrowOopModeConstant_serialize
  \/ CompilerPhaseTypeConstant_serialize
  \/ CodeBlobTypeConstant_serialize
  \/ VMOperationTypeConstant_serialize

SpecTables == InitTables /\ [][NextTables]_vars

\* ==================================================================== claims
\* helpers: the calls that returned, and the cells each one left behind
Returns == {calls[i] : i \in 1..Len(calls)}
ThreadSetReturns == {c \in Returns : c.ser = "JfrThreadConstantSet"}
Enumerated(c) == c.reg.java \o c.reg.nonjava
CountField(c) == Cells(writer.buf, c.before, c.before + 4)
IsCount(cs) == Len(cs) = 4 /\ \A i \in 1..4 : cs[i].k = "byte"
CountOf(c) == DecodeU4(CountField(c))
\* the j-th thread entry (six cells) after the count slot of call c
ThreadEntry(c, j) ==
  Cells(writer.buf, c.before + 4 + 6 * (j - 1), c.before + 4 + 6 * j)
\* the i-th (key, name) entry, i from 0, after the count of call c
TableEntry(c, i) ==
  Cells(writer.buf, c.before + 4 + 2 * i, c.before + 4 + 2 * i + 2)

\* C1: a JfrThreadConstantSet::serialize that enumerated k >= 1 threads (Java
\* plus non-Java) returns with the pool kept: exactly k six-cell entries
\* follow the 4-byte count slot, and the u32 patched into the slot is k.
C1_CountIsThreadTotal ==
  \A c \in ThreadSetReturns :
    LET k == Len(Enumerated(c))
    IN  k >= 1 =>
          /\ c.after = c.before + 4 + 6 * k
          /\ IsCount(CountField(c))
          /\ CountOf(c) = k
          /\ \A j \in 1..k : Len(ThreadEntry(c, j)) = 6

\* C1 witness: two Java threads and one non-Java thread gave count 3
C1_Witness ==
  \E c \in ThreadSetReturns :
    /\ Len(c.reg.java) = 2
    /\ Len(c.reg.nonjava) = 1
    /\ CountOf(c) = 3

\* C2: when both iterators were empty, JfrThreadConstantSet::serialize returns
\* with the writer's cursor where it was before the call: the reserved count
\* slot leaves no residual bytes.
C2_EmptyRegistryRestoresCursor ==
  \A c \in ThreadSetReturns : Enumerated(c) = <<>> => c.after = c.before

\* C2 witness: an empty enumeration returned after an earlier pool was written
C2_Witness ==
  \E c \in ThreadSetReturns :
    /\ Enumerated(c) = <<>>
    /\ c.before > 0
    /\ c.after = c.before

\* the shape of one thread entry
IsThreadEntry(e) ==
  /\ Len(e) = 6
  /\ e[1].k = "key"
  /\ e[2].k \in {"str", "null"}
  /\ e[3].k = "id"
  /\ e[4].k \in {"str", "null"}
  /\ e[5].k = "id"
  /\ e[6].k = "id"

C3_Complete ==
  \A c \in ThreadSetReturns :
    \/ c.after = c.before
    \/ /\ IsCount(CountField(c))
       /\ c.after = c.before + 4 + 6 * CountOf(c)
       /\ \A j \in 1..CountOf(c) : IsThreadEntry(ThreadEntry(c, j))

\* a step of a running JfrThreadConstantSet::serialize keeps the cells below
\* the context it captured
C3_PrefixKept ==
  LET ctx == IF pc = "idle" THEN tc'.ctx ELSE tc.ctx
  IN  ((pc = "idle" /\ pc' = "lock") \/ pc \notin {"idle", "fatal"}) =>
        Cells(writer'.buf, 0, ctx) = Cells(writer.buf, 0, ctx)

\* C3: in any sequence of serializer calls on one writer, each
\* JfrThreadConstantSet::serialize contributes one complete pool (count slot
\* followed by exactly count entries) or no bytes at all, and none of its
\* steps, the patch and the rollback included, changes a byte below the
\* context position it captured.
C3_PoolOrNothing == [](C3_Complete) /\ [][C3_PrefixKept]_vars

\* C3 witness: a kept pool written behind the pool of an earlier serializer
C3_Witness ==
  \E c \in ThreadSetReturns :
    /\ c.before > 0
    /\ c.after > c.before
    /\ CountOf(c) >= 1

\* C4: from the acquisition of Threads_lock to its release, the Java loop and
\* the non-Java loop (every do_thread call) included, the calling thread holds
\* Threads_lock and the registry is what it was when the lock was acquired,
\* while other threads try to add and remove threads; the entries written
\* are those of exactly the threads registered at that moment.
C4_EnumeratedUnderLock ==
  /\ pc \in {"skip_on", "java", "nonjava", "skip_off", "unlock"} =>
       /\ lockOwner = HeldBy(cur)
       /\ javaReg = seen.java
       /\ nonJavaReg = seen.nonjava
  /\ \A c \in ThreadSetReturns :
       /\ c.after - c.before = IF Enumerated(c) = <<>> THEN 0
                               ELSE 4 + 6 * Len(Enumerated(c))
       /\ {ThreadEntry(c, j)[1].n : j \in 1..Len(Enumerated(c))}
            = {jfr_id(Enumerated(c)[j]) : j \in 1..Len(Enumerated(c))}

\* C4 witness: the registry was changed by another thread once the lock was
\* released, and the pool still holds the threads registered when it was taken
C4_Witness ==
  /\ pc = "dtor"
  /\ tc.count >= 1
  /\ <<javaReg, nonJavaReg>> # <<seen.java, seen.nonjava>>

\* C5: in a pool of JfrThreadConstantSet::serialize every entry of a non-Java
\* thread has the null string as Java name and zero as Java thread id and as
\* thread group id; every entry of a Java thread has its display name, its
\* Java thread id and its resolved group id there.
C5_ManagedFields ==
  \A c \in ThreadSetReturns :
    \A j \in 1..Len(Enumerated(c)) :
      LET t == Enumerated(c)[j]
          e == ThreadEntry(c, j)
      IN  /\ Len(e) = 6
          /\ IF t \in NonJavaThreads
             THEN e[4] = NullStr /\ e[5] = Id(0) /\ e[6] = Id(0)
             ELSE /\ e[4] = e[2]
                  /\ e[4] = JfrThreadName_name(t)
                  /\ e[5] = Id(200 + t)
                  /\ e[6] = Id(thread_group_id(t, cur))

\* C5 witness: a pool with a Java entry and a non-Java entry
C5_Witness ==
  \E c \in ThreadSetReturns :
    /\ c.reg.java # <<>>
    /\ c.reg.nonjava # <<>>
    /\ c.after > c.before

\* C6: in one pool of JfrThreadConstantSet::serialize the entries of the Java
\* threads come first, in the Java iterator's order, and the entries of the
\* non-Java threads follow, in the non-Java iterator's order.
C6_JavaBeforeNonJava ==
  \A c \in ThreadSetReturns :
    LET nj == Len(c.reg.java)
        nn == Len(c.reg.nonjava)
    IN  /\ \A j \in 1..nj : ThreadEntry(c, j)[1] = Key(300 + c.reg.java[j])
        /\ \A j \in 1..nn :
             ThreadEntry(c, nj + j)[1] = Key(300 + c.reg.nonjava[j])

\* C6 witness: a pool of two Java threads, registered 11 before 10, and a
\* non-Java thread
C6_Witness ==
  \E c \in ThreadSetReturns :
    /\ c.reg.java = <<11, 10>>
    /\ c.reg.nonjava = <<5>>
    /\ c.after > c.before

\* the twelve tables whose serializer is the plain loop
LoopTables ==
  {"FlagValueOrigin", "MonitorInflateCause", "GCCause", "GCName", "GCWhen",
   "G1HeapRegionType", "GCThresholdUpdater", "MetadataType",
   "MetaspaceObjectType", "ReferenceType", "NarrowOopMode", "VMOperationType"}

\* the names expected for the two tables whose lookup is in this file
FlagValueOriginNames ==
  <<"Default", "Command line", "Environment variable", "Config file",
    "Management", "Ergonomic", "Attach on demand", "Internal">>
ReferenceTypeNames ==
  <<"None reference", "Other reference", "Soft reference", "Weak reference",
    "Final reference", "Phantom reference">>
ExpectedName(tbl, i) ==
  CASE tbl = "FlagValueOrigin" -> Str(FlagValueOriginNames[i + 1], 0)
    [] tbl = "ReferenceType" -> Str(ReferenceTypeNames[i + 1], 0)
    [] OTHER -> Str(tbl, i)

\* C7: each looping table serializer, for cardinality N, writes count N and
\* then exactly N entries, the i-th (i from 0) with key i and the name looked
\* up for ordinal i, in increasing ordinal order.
C7_TableIsOrdinalNamePairs ==
  \A c \in Returns :
    c.ser \in LoopTables =>
      /\ IsCount(CountField(c))
      /\ CountOf(c) = c.nof
      /\ c.after = c.before + 4 + 2 * c.nof
      /\ \A i \in 0..(c.nof - 1) :
           TableEntry(c, i) = <<Key(i), ExpectedName(c.ser, i)>>

\* C7 witness: the eight flag value origins, and a table of an enumeration
\* declared elsewhere with two or more values, were written
C7_Witness ==
  /\ \E c \in Returns : c.ser = "FlagValueOrigin" /\ c.nof = 8
  /\ \E c \in Returns : c.ser = "VMOperationType" /\ c.nof >= 2

\* C8 (as claimed): for every emitted pool the count field equals the number
\* of entries appended after it; in particular for CodeBlobTypeConstant, for
\* every value of CodeBlobType::NumTypes.
C8_CountEqualsEntries ==
  \A c \in Returns :
    c.after > c.before =>
      /\ IsCount(CountField(c))
      /\ c.after = c.before + 4 + 2 * CountOf(c)

\* C9: CodeBlobTypeConstant::serialize appends exactly one entry, key
\* CodeBlobType::All with name "CodeCache", whatever CodeBlobType::NumTypes is.
C9_CodeBlobSingleEntry ==
  \A c \in Returns :
    c.ser = "CodeBlobType" =>
      /\ c.after = c.before + 4 + 2
      /\ TableEntry(c, 0) = <<CodeBlobType_All, Str("CodeCache", 0)>>

\* C9 witness: the code blob table was written with NumTypes above 1
C9_Witness ==
  \E c \in Returns : c.ser = "CodeBlobType" /\ c.nof >= 2

\* the capability a gated table needs is absent from the build
Absent(tbl) ==
  \/ tbl = "G1YCType" /\ ~build.INCLUDE_ALL_GCS
  \/ tbl = "CompilerPhaseType" /\ ~build.COMPILER2

\* C10 (as claimed): with its capability absent, G1YCTypeConstant and
\* CompilerPhaseTypeConstant still emit a declared pool of count 0 with no
\* entries: the cursor advances by the count field.
C10_AbsentCapabilityEmitsEmptyPool ==
  \A c \in Returns :
    Absent(c.ser) =>
      /\ c.after = c.before + 4
      /\ IsCount(CountField(c))
      /\ CountOf(c) = 0

SelfReturns == {c \in Returns : c.ser = "JfrThreadConstant"}

\* C11: JfrThreadConstant::serialize writes count 1 and then exactly one
\* thread entry, that of the calling thread, for a Java thread (whose entry
\* is followed by its group chain) and for a non-Java thread alike, and the
\* cursor only moves forward.
C11_SelfIsOneEntry ==
  \A c \in SelfReturns :
    /\ IsCount(CountField(c))
    /\ CountOf(c) = 1
    /\ IsThreadEntry(ThreadEntry(c, 1))
    /\ ThreadEntry(c, 1)[1] = Key(300 + cur)
    /\ ThreadEntry(c, 1)[3] = Id(100 + cur)
    /\ c.after = c.before + 4 + 6 + (IF cur \in NonJavaThreads \cup {2} THEN 0 ELSE 1)
    /\ c.after > c.before

\* C11 witness: a non-Java thread serialized itself behind an earlier pool
C11_Witness ==
  \E c \in SelfReturns : cur = 2 /\ c.before > 0 /\ CountOf(c) = 1

\* the last call that returned was JfrThreadConstantSet::serialize
ThreadSetJustLeft ==
  /\ pc = "idle"
  /\ calls # <<>>
  /\ calls[Len(calls)].ser = "JfrThreadConstantSet"

\* C12 (as claimed): JfrThreadConstantSet::serialize never leaves the calling
\* thread's rank-order check disabled: after a normal return, and after a
\* failure inside the enumeration, skip_rank_order_check is false.
C12_FlagFalseOnEveryExit ==
  /\ ThreadSetJustLeft => skip = FALSE
  /\ pc = "fatal" => skip = FALSE

\* C13 (as claimed): no pool completed by JfrThreadConstantSet::serialize or
\* by JfrThreadConstant::serialize holds an entry whose display name is the
\* null string; a NULL from JfrThreadName::name stops the run instead.
C13_NoNullDisplayName ==
  \A c \in ThreadSetReturns \cup SelfReturns :
    c.after > c.before =>
      \A j \in 1..CountOf(c) : ThreadEntry(c, j)[2] # NullStr

\* what a JfrThreadConstantSet::serialize that returned has done: one
\* do_thread call per thread registered when the lock was taken, each thread
\* once, and Threads_lock no longer held by the calling thread
C14_ReturnedRight ==
  /\ \A c \in ThreadSetReturns :
       /\ c.nof = Len(Enumerated(c))
       /\ \A j \in 1..c.nof : ThreadEntry(c, j)[1] = Key(300 + Enumerated(c)[j])
  /\ (pc = "dtor" \/ ThreadSetJustLeft) => lockOwner # HeldBy(cur)

\* C14 (as claimed): once JfrThreadConstantSet::serialize holds Threads_lock
\* it eventually returns, having called do_thread exactly once per registered
\* thread, with Threads_lock released by the calling thread.
C14_EventuallyReturns ==
  ((pc = "skip_on") ~> (pc = "idle")) /\ [](C14_ReturnedRight)

\* C14 (amended): once JfrThreadConstantSet::serialize holds Threads_lock it
\* eventually returns or stops the VM at the failed assert(name != NULL) of a
\* debug build; when it returns it has called do_thread exactly once per
\* registered thread and the calling thread no longer holds Threads_lock.
C14_ReturnsOrStops ==
  ((pc = "skip_on") ~> (pc \in {"idle", "fatal"})) /\ [](C14_ReturnedRight)

\* C14 witness: a call that enumerated three threads has returned and the
\* lock is free
C14_Witness ==
  /\ ThreadSetJustLeft
  /\ calls[Len(calls)].nof = 3
  /\ lockOwner = NoThread

\* C15 (as claimed): in a debug build the calling thread's
\* skip_rank_order_check flag is already true when JfrThreadConstantSet::
\* serialize has just acquired Threads_lock.
C15_FlagSetBeforeLock ==
  (build.ASSERT /\ pc = "skip_on") => skip = TRUE

\* C15 (amended): in a debug build JfrThreadConstantSet::serialize leaves the
\* flag as the caller had it until Threads_lock has been acquired, and sets it
\* to true while holding the lock, before the first do_thread.
C15_FlagSetUnderLock ==
  build.ASSERT =>
    /\ pc \in {"lock", "skip_on"} => skip = skip0
    /\ pc \in {"java", "nonjava"} => (skip = TRUE /\ lockOwner = HeldBy(cur))

\* C15 witness: a debug build about to enumerate its first thread, the flag
\* raised from false under the lock
C15_Witness ==
  /\ build.ASSERT
  /\ pc = "java"
  /\ jidx = 1
  /\ javathreads # <<>>
  /\ skip0 = FALSE
  /\ skip = TRUE

\* C16: the group id of every Java thread t written by JfrThreadConstantSet::
\* serialize is the one resolved with subject t in the context of the thread
\* that called serialize, never in the context of t; the one written by
\* JfrThreadConstant::serialize is resolved with the thread itself as subject
\* and as context.
C16_GroupIdContext ==
  /\ \A c \in ThreadSetReturns : \A j \in 1..c.nof :
       LET t == Enumerated(c)[j]
       IN  is_Java_thread(t) =>
             /\ ThreadEntry(c, j)[6] = Id(thread_group_id(t, cur))
             /\ ThreadEntry(c, j)[6] # Id(thread_group_id(t, t))
  /\ \A c \in SelfReturns :
       is_Java_thread(cur) => ThreadEntry(c, 1)[6] = Id(thread_group_id(cur, cur))

\* C16 witness: the same Java caller has returned from both serializers, the
\* thread set holding a Java thread
C16_Witness ==
  /\ is_Java_thread(cur)
  /\ \E c \in ThreadSetReturns : c.reg.java # <<>>
  /\ SelfReturns # {}

\* C17: every entry of a pool of JfrThreadConstantSet::serialize has the same
\* six fields in the same order and of the same types, whatever the thread's
\* kind: a non-Java thread gets its three sentinels, so the pool is six cells
\* per thread.
C17_SameShape ==
  \A c \in ThreadSetReturns :
    c.after > c.before =>
      /\ c.after = c.before + 4 + 6 * c.nof
      /\ \A j \in 1..c.nof :
           /\ IsThreadEntry(ThreadEntry(c, j))
           /\ \A i \in 1..c.nof :
                \A f \in 1..6 :
                  LET a == ThreadEntry(c, j)[f].k
                      b == ThreadEntry(c, i)[f].k
                  IN  a = b \/ {a, b} = {"str", "null"}

\* C17 witness: a pool whose last entry is a non-Java thread's, after a Java
\* thread's
C17_Witness ==
  \E c \in ThreadSetReturns :
    /\ c.nof >= 2
    /\ c.reg.nonjava # <<>>
    /\ ThreadEntry(c, 1)[5] # Id(0)
    /\ ThreadEntry(c, c.nof)[5] = Id(0)

\* the two tables whose name lookup is defined in this file
SwitchTables == {"FlagValueOrigin", "ReferenceType"}

\* C18: ShouldNotReachHere is never executed from FlagValueOriginConstant::
\* serialize or ReferenceTypeConstant::serialize: every ordinal below
\* nof_entries is a handled case of the lookup.
C18_LookupNeverFatal ==
  /\ pc # "fatal"
  /\ \A c \in Returns :
       c.ser \in SwitchTables =>
         \A i \in 0..(c.nof - 1) :
           /\ to_string(c.ser, i) # ShouldNotReachHere
           /\ TableEntry(c, i)[2] = to_string(c.ser, i)

\* C18 witness: both serializers have returned, with the last ordinal of each
C18_Witness ==
  /\ \E c \in Returns : c.ser = "FlagValueOrigin" /\ c.nof = Len(Flag_Flags)
  /\ \E c \in Returns : c.ser = "ReferenceType" /\ c.nof = Len(ReferenceType)

\* C19 (as claimed): when JfrThreadConstantSet::serialize has returned, the
\* calling thread's skip_rank_order_check flag has the value it had before the
\* call, whether that was true or false.
C19_FlagRestored ==
  ThreadSetJustLeft => skip = skip0

\* C20: JfrThreadConstantSet::serialize captures the context and reserves the
\* count slot before it acquires Threads_lock, writes entries only while the
\* calling thread holds it, and patches the count or rolls back only after
\* the lock has been released.
C20_WritesAroundLock ==
  [][ /\ (pc = "idle" /\ pc' = "lock") =>
           /\ lockOwner # HeldBy(cur)
           /\ tc'.ctx = context(writer)
           /\ writer'.pos = writer.pos + 4
      /\ (pc = "lock" /\ pc' = "skip_on") =>
           (writer' = writer /\ lockOwner' = HeldBy(cur))
      /\ (pc \in {"java", "nonjava"} /\ writer' # writer) =>
           (lockOwner = HeldBy(cur) /\ lockOwner' = HeldBy(cur))
      /\ (pc \in {"lock", "skip_on", "skip_off", "unlock"}) => writer' = writer
      /\ (pc = "dtor" /\ pc' = "idle") =>
           (lockOwner # HeldBy(cur) /\ lockOwner' # HeldBy(cur))
    ]_vars

\* C20 witness: the lock is free again and the closure, three threads
\* counted, is about to patch the count
C20_Witness ==
  /\ pc = "dtor"
  /\ tc.count = 3
  /\ lockOwner = NoThread
  /\ writer.pos = start + 4 + 18

====
